---------------------------- MODULE Spec2Model ----------------------------
(***************************************************************************)
(* Model of repo-sync.py: the README section helper (class Readme), the   *)
(* per-repository operations (class Repository) and the phase loop of     *)
(* main().                                                                *)
(*                                                                         *)
(* Text is a sequence of atoms.  An atom is either one of the characters  *)
(* the code tests for ("#", " ", "\n") or a word: a non-empty run of      *)
(* characters holding neither whitespace nor "#".  str.startswith,        *)
(* str.strip, str.splitlines and str.join are computed atom by atom.      *)
(***************************************************************************)
EXTENDS Integers, Sequences, FiniteSets, TLC

(***************************************************************************)
(* Bounds of the model.                                                    *)
(***************************************************************************)
\* lines of a target README drawn in the README specification
MaxLines == 3
\* lines of the base README drawn in the README specification
MaxBaseLines == 2
\* Readme objects constructed in a row on the same path (runs of the tool)
MaxPasses == 2
\* repositories of REPOSITORIES the run goes over (the first NumRepos)
NumRepos == 3
\* files of the remote repositories that differ from the synchronized state
MaxDev == 1

(***************************************************************************)
(* Strings.                                                                *)
(***************************************************************************)
NL == "\n"
SP == " "
HASH == "#"

\* the characters str.strip() removes
Whitespace == {SP, NL}

StartsWith(s, p) == Len(s) >= Len(p) /\ SubSeq(s, 1, Len(p)) = p

RECURSIVE LStrip(_)
LStrip(s) ==
  IF s # <<>> /\ Head(s) \in Whitespace THEN LStrip(Tail(s)) ELSE s

RECURSIVE RStrip(_)
RStrip(s) ==
  IF s # <<>> /\ s[Len(s)] \in Whitespace
  THEN RStrip(SubSeq(s, 1, Len(s) - 1))
  ELSE s

\* str.strip()
Strip(s) == RStrip(LStrip(s))

\* index of the first line break of s, 0 when there is none
RECURSIVE FirstNL(_, _)
FirstNL(s, i) ==
  IF i > Len(s) THEN 0 ELSE IF s[i] = NL THEN i ELSE FirstNL(s, i + 1)

\* str.splitlines(): a final line break opens no further line
RECURSIVE SplitLines(_)
SplitLines(s) ==
  IF s = <<>> THEN <<>>
  ELSE LET i == FirstNL(s, 1)
       IN  IF i = 0 THEN <<s>>
           ELSE <<SubSeq(s, 1, i - 1)>> \o SplitLines(SubSeq(s, i + 1, Len(s)))

\* sep.join(parts)
RECURSIVE Join(_, _)
Join(sep, parts) ==
  IF parts = <<>> THEN <<>>
  ELSE IF Len(parts) = 1 THEN parts[1]
  ELSE parts[1] \o sep \o Join(sep, Tail(parts))

(***************************************************************************)
(* dict[str, str]: insertion ordered, a sequence of [key, value] records   *)
(* with pairwise distinct keys.                                            *)
(***************************************************************************)
Keys(d) == [i \in 1..Len(d) |-> d[i].key]

HasKey(d, k) == \E i \in 1..Len(d) : d[i].key = k

Get(d, k) == d[CHOOSE i \in 1..Len(d) : d[i].key = k].value

\* d[k] = v: an existing key keeps its place, a new key goes last
DictSet(d, k, v) ==
  IF HasKey(d, k)
  THEN [i \in 1..Len(d) |-> IF d[i].key = k THEN [key |-> k, value |-> v] ELSE d[i]]
  ELSE Append(d, [key |-> k, value |-> v])

(***************************************************************************)
(* class Readme.                                                           *)
(***************************************************************************)
README_SECTIONS ==
  << <<HASH, HASH, SP, "Documentation">>,
     <<HASH, HASH, SP, "Contributing">>,
     <<HASH, HASH, SP, "Versioning">>,
     <<HASH, HASH, SP, "License">>,
     <<HASH, HASH, SP, "Donations">> >>

InReadmeSections(h) == \E i \in 1..Len(README_SECTIONS) : README_SECTIONS[i] = h

\* a path that does not exist (no text holds this atom)
NoFile == <<"<no file>">>
\* section: str | None = None (no text holds this atom)
None == <<"<None>">>

\* section startswith("# ")
IsTopLevel(h) == StartsWith(h, <<HASH, SP>>)

\* the "if section:" store of load_existing
Flush(st) ==
  IF st.section # None /\ st.section # <<>>
  THEN DictSet(st.sections, st.section, Join(<<NL>>, st.content))
  ELSE st.sections

\* the loop of load_existing over the lines from position i
RECURSIVE LoadLines(_, _, _)
LoadLines(lines, i, st) ==
  IF i > Len(lines) THEN Flush(st)
  ELSE IF StartsWith(lines[i], <<HASH>>)
       THEN LoadLines(lines, i + 1,
                      [section |-> lines[i], content |-> <<>>, sections |-> Flush(st)])
       ELSE LoadLines(lines, i + 1,
                      [st EXCEPT !.content = Append(st.content, lines[i])])

\* Readme.__init__ and load_existing: the sections of the file at the path
load_existing(text) ==
  IF text = NoFile THEN <<>>
  ELSE LoadLines(SplitLines(text), 1,
                 [section |-> None, content |-> <<>>, sections |-> <<>>])

\* the inner loop of update: every top-level section of ours takes content
RECURSIVE SetTopLevel(_, _, _)
SetTopLevel(ours, i, content) ==
  IF i > Len(ours) THEN ours
  ELSE SetTopLevel(IF IsTopLevel(ours[i].key)
                   THEN DictSet(ours, ours[i].key, content)
                   ELSE ours,
                   i + 1, content)

\* UpdateOne without the allow-list test
UpdateOneAnyHeading(ours, section, content) ==
  IF IsTopLevel(section) THEN SetTopLevel(ours, 1, content)
  ELSE IF HasKey(ours, section) THEN DictSet(ours, section, content)
       ELSE ours

\* UpdateOne matching the top-level heading by its text
UpdateOneSameTitle(ours, section, content) ==
  IF IsTopLevel(section)
  THEN IF HasKey(ours, section) THEN DictSet(ours, section, content) ELSE ours
  ELSE IF InReadmeSections(section) /\ HasKey(ours, section)
       THEN DictSet(ours, section, content)
       ELSE ours

\* UpdateOne without the test that the section is in self.sections
UpdateOneCreating(ours, section, content) ==
  IF IsTopLevel(section) THEN SetTopLevel(ours, 1, content)
  ELSE IF InReadmeSections(section) THEN DictSet(ours, section, content)
       ELSE ours

\* one iteration of the loop of update
UpdateOne(ours, section, content) ==
  IF IsTopLevel(section) THEN SetTopLevel(ours, 1, content)
  ELSE IF InReadmeSections(section) /\ HasKey(ours, section)
       THEN DictSet(ours, section, content)
       ELSE ours

\* Readme.update: the loop over base.sections.items() from position i
RECURSIVE UpdateFrom(_, _, _)
UpdateFrom(ours, base, i) ==
  IF i > Len(base) THEN ours
  ELSE UpdateFrom(UpdateOne(ours, base[i].key, base[i].value), base, i + 1)

update(ours, base) == UpdateFrom(ours, base, 1)

\* the f-string of save
RenderSection(e) == Strip(e.key) \o <<NL, NL>> \o Strip(e.value) \o <<NL>>

\* Readme.save: the text written to the path
save(sections) ==
  Join(<<NL>>, [i \in 1..Len(sections) |-> RenderSection(sections[i])])

(***************************************************************************)
(* State of the README helper: one README file and the Readme objects      *)
(* constructed on it, one after the other, with a base Readme.            *)
(***************************************************************************)
VARIABLES
  text,      \* content of the file at Readme.path, NoFile when absent
  sections,  \* Readme.sections of the current object
  base,      \* sections of the base Readme handed to update
  rpc,       \* "new", "loaded", "updated" or "saved"
  runs       \* one record per Readme object: what it loaded, did and wrote

rvars == <<text, sections, base, rpc, runs>>

VARIABLES
  phase,   \* the loop of main that is running, "done" or "aborted"
  idx,     \* position in repos of the repository the loop is at
  repos,   \* per repository name: its record (see class Repository)
  readme,  \* sections of readme = Readme(base / "README.md"), None before
  last,    \* the last call of main: name, repository, commands, exception
  done     \* per repository name: the calls that returned for it

mvars == <<phase, idx, repos, readme, last, done>>

vars == <<rvars, mvars>>

\* the lines README texts are drawn from
Lines ==
  { <<HASH, SP, "Title">>,
    <<HASH, SP, "Other">>,
    <<HASH, HASH, SP, "License">>,
    <<HASH, HASH, SP, "Custom">>,
    <<"words">>,
    <<SP, HASH>> }

SeqsUpTo(S, n) == UNION {[1..k -> S] : k \in 0..n}

\* the texts of at most n lines
Texts(n) == {Join(<<NL>>, ls) : ls \in SeqsUpTo(Lines, n)}

ReadmeIdle ==
  /\ text = NoFile
  /\ sections = <<>>
  /\ base = <<>>
  /\ rpc = "off"
  /\ runs = <<>>

ReadmeInit ==
  /\ text \in Texts(MaxLines) \cup {NoFile}
  /\ base \in {load_existing(t) : t \in Texts(MaxBaseLines)}
  /\ sections = <<>>
  /\ rpc = "new"
  /\ runs = <<>>

\* readme = Readme(path)
Construct ==
  /\ rpc \in {"new", "saved"}
  /\ Len(runs) < MaxPasses
  /\ sections' = load_existing(text)
  /\ runs' = Append(runs, [parsed |-> load_existing(text), merged |-> FALSE,
                           written |-> None])
  /\ rpc' = "loaded"
  /\ UNCHANGED <<text, base, mvars>>

\* readme.update(base); update_readme calls it only when path.exists()
Update ==
  /\ rpc = "loaded"
  /\ text # NoFile
  /\ sections' = update(sections, base)
  /\ runs' = [runs EXCEPT ![Len(runs)].merged = TRUE]
  /\ rpc' = "updated"
  /\ UNCHANGED <<text, base, mvars>>

\* readme.save(); a Readme of a missing path (the base's) is never saved
Save ==
  /\ rpc \in {"loaded", "updated"}
  /\ text # NoFile
  /\ text' = save(sections)
  /\ runs' = [runs EXCEPT ![Len(runs)].written = save(sections)]
  /\ rpc' = "saved"
  /\ UNCHANGED <<sections, base, mvars>>

(***************************************************************************)
(* Configuration of repo-sync.py.                                          *)
(***************************************************************************)
REPOSITORIES ==
  << "social-core", "social-docs", ".github", "social-app-django",
     "social-app-cherrypy", "social-storage-sqlalchemy", "social-storage-peewee",
     "social-storage-mongoengine", "social-examples", "social-app-flask-sqlalchemy",
     "social-app-pyramid", "social-app-tornado", "social-app-webpy",
     "social-app-django-mongoengine", "social-app-flask-peewee",
     "social-app-flask-mongoengine", "social-app-flask" >>

COPY_FROM_BASE == << ".pre-commit-config.yaml", ".github/renovate.json" >>

ADJUST_FROM_BASE ==
  << [ name |-> ".github/workflows/pre-commit.yml",
       original |-> "uses: ./.github/workflows/pre-commit-shared.yml",
       replacement |->
         "uses: python-social-auth/social-core/.github/workflows/pre-commit-shared.yml@master" ],
     [ name |-> ".github/workflows/release.yml",
       original |-> "uses: ./.github/workflows/release-shared.yml",
       replacement |->
         "uses: python-social-auth/social-core/.github/workflows/release-shared.yml@master" ] >>

ADJUST_FROM_BASE_EXCEPTIONS ==
  { <<".github", ".github/workflows/release.yml">>,
    <<"social-docs", ".github/workflows/release.yml">>,
    <<"social-examples", ".github/workflows/release.yml">> }

REMOVE_FILES ==
  << ".github/dependabot.yml", ".github/workflows/ruff.yml", ".landscape.yaml",
     ".flake8", "Makefile", "Dockerfile", "CONTRIBUTING.md", "renovate.json" >>

REMOVE_EXCEPTIONS == { <<".github", "CONTRIBUTING.md">> }

COMMIT_MESSAGE == "chore: update shared files"

COMMIT_MESSAGE_PRE_COMMIT == "chore: apply pre-commit fixes"

\* the names update_readme goes over
README_NAMES == << "README.md", "profile/README.md" >>

Range(f) == {f[i] : i \in DOMAIN f}

\* the repositories of the run, in list order; the first is the base
Repos == SubSeq(REPOSITORIES, 1, NumRepos)

RepoSet == Range(Repos)

\* base = REPOS / REPOSITORIES[0]
BaseRepo == REPOSITORIES[1]

AdjustNames == {ADJUST_FROM_BASE[i].name : i \in 1..Len(ADJUST_FROM_BASE)}

\* a file of the checkouts no rule names
OtherFile == "pyproject.toml"

\* the files of a checkout the model follows
Paths ==
  Range(COPY_FROM_BASE) \cup AdjustNames \cup Range(REMOVE_FILES)
    \cup Range(README_NAMES) \cup {OtherFile}

(***************************************************************************)
(* Repository.run: subprocess.run(args, cwd=cwd, check=check) raises       *)
(* CalledProcessError when check is set and the exit code is not zero.    *)
(***************************************************************************)
\* run without check: no exit code raises
RaisesNever(rc, check) == FALSE

Raises(rc, check) == check /\ rc # 0

\* the exit codes a command can end with
ExitCodes == {0, 1}

\* One command of a call: g is the call's progress, a record of the trees the
\* call works on, the commands run so far and whether an exception is raised.
\* A command is run only while no exception is raised; after carries its
\* effect when it exits with 0.
RunCmd(g, cmd, rc, check, after) ==
  IF g.raised # "none" THEN g
  ELSE [ (IF rc = 0 THEN after ELSE g) EXCEPT
           !.ops = Append(g.ops, [cmd |-> cmd, rc |-> rc, check |-> check]),
           !.raised = IF Raises(rc, check) THEN "CalledProcessError" ELSE "none" ]

(***************************************************************************)
(* class Repository.  A call works on the record g of its repository:     *)
(*   exists     self.directory exists                                     *)
(*   work       the files of the working copy (path -> text or NoFile)    *)
(*   index      the staged tree                                           *)
(*   head       the tree of the last local commit                         *)
(*   remote     the tree of origin/HEAD at the hosting service            *)
(*   committed  the messages of the commits made locally by the run       *)
(*   pushed     the messages of the commits the remote has received       *)
(*   ops, raised  the commands run by the call and the exception raised   *)
(* rcs are the exit codes the commands of the call end with.              *)
(***************************************************************************)

\* Repository.checkout: after git reset --hard origin/HEAD, or after git
\* clone, the working copy, the index and HEAD hold the tree of the remote
\* (the working copy is taken to hold no untracked files)
checkout(g, rcs) ==
  IF g.exists
  THEN LET g1 == RunCmd(g, "git remote update", rcs[1], TRUE, g)
       IN  RunCmd(g1, "git reset", rcs[2], TRUE,
                  [g1 EXCEPT !.work = g1.remote, !.index = g1.remote,
                             !.head = g1.remote])
  ELSE RunCmd(g, "git clone", rcs[1], TRUE,
              [g EXCEPT !.exists = TRUE, !.work = g.remote, !.index = g.remote,
                        !.head = g.remote])

\* copyfile(self.base / name, output): the source is opened first
CopyFile(tree, baseTree, name) ==
  IF baseTree[name] = NoFile
  THEN [tree |-> tree, raised |-> "FileNotFoundError"]
  ELSE [tree |-> [tree EXCEPT ![name] = baseTree[name]], raised |-> "none"]

\* the loop over COPY_FROM_BASE from position i
RECURSIVE CopyFrom(_, _, _)
CopyFrom(i, tree, baseTree) ==
  IF i > Len(COPY_FROM_BASE) THEN [tree |-> tree, raised |-> "none"]
  ELSE LET c == CopyFile(tree, baseTree, COPY_FROM_BASE[i])
       IN  IF c.raised # "none" THEN c ELSE CopyFrom(i + 1, c.tree, baseTree)

\* source.replace(original, replacement); original is one atom of the text
Replace(source, original, replacement) ==
  [i \in 1..Len(source) |-> IF source[i] = original THEN replacement ELSE source[i]]

\* the exceptions of the substitution rules ignored
IsAdjustExceptionNever(name, file) == FALSE

\* (self.name, name) in ADJUST_FROM_BASE_EXCEPTIONS
IsAdjustException(name, file) == <<name, file>> \in ADJUST_FROM_BASE_EXCEPTIONS

\* (self.base / name).read_text() and output.write_text(...)
AdjustFile(tree, baseTree, rule) ==
  IF baseTree[rule.name] = NoFile
  THEN [tree |-> tree, raised |-> "FileNotFoundError"]
  ELSE [tree |-> [tree EXCEPT ![rule.name] =
                    Replace(baseTree[rule.name], rule.original, rule.replacement)],
        raised |-> "none"]

\* the loop over ADJUST_FROM_BASE.items() from position i
RECURSIVE AdjustFrom(_, _, _, _)
AdjustFrom(i, name, tree, baseTree) ==
  IF i > Len(ADJUST_FROM_BASE) THEN [tree |-> tree, raised |-> "none"]
  ELSE IF IsAdjustException(name, ADJUST_FROM_BASE[i].name)
       THEN AdjustFrom(i + 1, name, tree, baseTree)
       ELSE LET a == AdjustFile(tree, baseTree, ADJUST_FROM_BASE[i])
            IN  IF a.raised # "none" THEN a
                ELSE AdjustFrom(i + 1, name, a.tree, baseTree)

\* unlink that raises on a missing file whatever missing_ok is
UnlinkStrict(tree, file, missing_ok) ==
  IF tree[file] = NoFile
  THEN [tree |-> tree, raised |-> "FileNotFoundError"]
  ELSE [tree |-> [tree EXCEPT ![file] = NoFile], raised |-> "none"]

\* file.unlink(missing_ok=...)
Unlink(tree, file, missing_ok) ==
  IF tree[file] = NoFile
  THEN [tree |-> tree,
        raised |-> IF missing_ok THEN "none" ELSE "FileNotFoundError"]
  ELSE [tree |-> [tree EXCEPT ![file] = NoFile], raised |-> "none"]

\* the loop over REMOVE_FILES from position i
RECURSIVE RemoveFrom(_, _, _)
RemoveFrom(i, name, tree) ==
  IF i > Len(REMOVE_FILES) THEN [tree |-> tree, raised |-> "none"]
  ELSE IF <<name, REMOVE_FILES[i]>> \in REMOVE_EXCEPTIONS
       THEN RemoveFrom(i + 1, name, tree)
       ELSE LET u == Unlink(tree, REMOVE_FILES[i], TRUE)
            IN  IF u.raised # "none" THEN u ELSE RemoveFrom(i + 1, name, u.tree)

\* Repository.update_files; baseTree is the working copy at self.base
update_files(g, name, baseTree) ==
  LET c == IF name # BaseRepo
           THEN CopyFrom(1, g.work, baseTree)
           ELSE [tree |-> g.work, raised |-> "none"]
      a == IF name # BaseRepo /\ c.raised = "none"
           THEN AdjustFrom(1, name, c.tree, baseTree)
           ELSE c
      d == IF a.raised = "none" THEN RemoveFrom(1, name, a.tree) ELSE a
  IN  [g EXCEPT !.work = d.tree, !.raised = d.raised]

\* the loop of update_readme over README_NAMES from position i
RECURSIVE ReadmeFrom(_, _, _)
ReadmeFrom(i, tree, baseSections) ==
  IF i > Len(README_NAMES) THEN tree
  ELSE LET path == README_NAMES[i]
       IN  ReadmeFrom(i + 1,
                      IF tree[path] # NoFile
                      THEN [tree EXCEPT ![path] =
                              save(update(load_existing(tree[path]), baseSections))]
                      ELSE tree,
                      baseSections)

\* Repository.update_readme
update_readme(g, baseSections) ==
  [g EXCEPT !.work = ReadmeFrom(1, g.work, baseSections)]

\* a diff that always reports a difference
GitDiffCachedAlways(staged, committedTree) == 1

\* exit code of git diff --cached --exit-code: 1 when the staged tree differs
\* from the tree of the last commit, else 0
GitDiffCached(staged, committedTree) == IF staged # committedTree THEN 1 ELSE 0

\* Repository.commit
commit(g, message, rcs) ==
  LET g1 == RunCmd(g, "git add", rcs[1], TRUE, [g EXCEPT !.index = g.work])
      returncode == GitDiffCached(g1.index, g1.head)
      g2 == RunCmd(g1, "git diff", returncode, FALSE, g1)
      g3 == RunCmd(g2, "git commit", rcs[2], TRUE,
                   [g2 EXCEPT !.head = g2.index,
                              !.committed = Append(g2.committed, message)])
      g4 == RunCmd(g3, "git push", rcs[3], TRUE,
                   [g3 EXCEPT !.remote = g3.head, !.pushed = g3.committed])
  IN  IF g2.raised = "none" /\ returncode # 0 THEN g4 ELSE g2

\* Repository.pre_commit; tool is what the formatting tool did: the working
\* copy it left and its exit code
pre_commit(g, tool, rcs) ==
  LET g0 == [g EXCEPT !.work = tool.work]
  IN  commit(RunCmd(g0, "uvx pre-commit", tool.rc, FALSE, g0),
             COMMIT_MESSAGE_PRE_COMMIT, rcs)

(***************************************************************************)
(* main(): the state of a run.                                             *)
(***************************************************************************)

PHASES ==
  << "checkout", "update_files", "load_readme", "update_readme", "commit",
     "pre_commit" >>

PhaseIndex(p) == CHOOSE i \in 1..Len(PHASES) : PHASES[i] = p

\* one loop over the repositories that makes all the calls on each
NextPosRepoMajor(p, i) ==
  IF PhaseIndex(p) < Len(PHASES)
  THEN [phase |-> PHASES[PhaseIndex(p) + 1], idx |-> i]
  ELSE IF i < Len(Repos) THEN [phase |-> PHASES[1], idx |-> i + 1]
       ELSE [phase |-> "done", idx |-> 1]

\* where main goes on after a call returned: the next repository of the
\* loop, or the first one of the next loop
NextPos(p, i) ==
  IF p # "load_readme" /\ i < Len(Repos) THEN [phase |-> p, idx |-> i + 1]
  ELSE IF PhaseIndex(p) < Len(PHASES)
       THEN [phase |-> PHASES[PhaseIndex(p) + 1], idx |-> 1]
       ELSE [phase |-> "done", idx |-> 1]

(***************************************************************************)
(* The files of the repositories at the start of a run.                    *)
(***************************************************************************)
ReadmeSynced ==
  <<HASH, SP, "Project", NL, NL, "Description", NL, NL,
    HASH, HASH, SP, "License", NL, NL, "MIT", NL, NL,
    HASH, HASH, SP, "Extra", NL, NL, "Keep", NL>>

ReadmeStale ==
  <<HASH, SP, "Fork", NL, "Old", SP, "text", NL,
    HASH, HASH, SP, "License", NL, "Old", NL,
    HASH, HASH, SP, "Extra", NL, "Mine", NL>>

\* a workflow file as the base repository holds it
Workflow(rule) == <<"jobs:", NL, SP, rule.original, NL>>

RuleOf(file) == ADJUST_FROM_BASE[CHOOSE i \in 1..Len(ADJUST_FROM_BASE) :
                                   ADJUST_FROM_BASE[i].name = file]

\* the content file has in repository name when nothing is left to synchronize
SyncedFile(name, file) ==
  IF file \in Range(COPY_FROM_BASE) THEN <<"shared">>
  ELSE IF file \in AdjustNames
       THEN IF name = BaseRepo THEN Workflow(RuleOf(file))
            ELSE IF <<name, file>> \in ADJUST_FROM_BASE_EXCEPTIONS THEN NoFile
            ELSE Replace(Workflow(RuleOf(file)), RuleOf(file).original,
                         RuleOf(file).replacement)
  ELSE IF file \in Range(REMOVE_FILES)
       THEN IF <<name, file>> \in REMOVE_EXCEPTIONS THEN <<"guide">> ELSE NoFile
  ELSE IF file = "README.md" THEN ReadmeSynced
  ELSE IF file = "profile/README.md" THEN NoFile
  ELSE <<"formatted">>

\* the contents a file of a remote repository is drawn from
FileContents(file) ==
  IF file \in Range(COPY_FROM_BASE) THEN {NoFile, <<"shared">>, <<"stale">>}
  ELSE IF file \in AdjustNames
       THEN {NoFile, Workflow(RuleOf(file)),
             Replace(Workflow(RuleOf(file)), RuleOf(file).original,
                     RuleOf(file).replacement)}
  ELSE IF file \in Range(REMOVE_FILES)
       THEN {NoFile, IF file = "CONTRIBUTING.md" THEN <<"guide">> ELSE <<"legacy">>}
  ELSE IF file \in Range(README_NAMES) THEN {NoFile, ReadmeSynced, ReadmeStale}
  ELSE {<<"formatted">>, <<"unformatted">>}

SyncedTrees == [name \in RepoSet |-> [file \in Paths |-> SyncedFile(name, file)]]

EmptyTree == [file \in Paths |-> NoFile]

\* the remote trees with at most n files off the synchronized state
RECURSIVE RemoteTrees(_)
RemoteTrees(n) ==
  IF n = 0 THEN {SyncedTrees}
  ELSE LET less == RemoteTrees(n - 1)
       IN  less \cup
           UNION { UNION { { [t EXCEPT ![name][file] = c] : c \in FileContents(file) }
                           : file \in Paths }
                   : <<t, name>> \in less \X RepoSet }

\* the working copies of the first k repositories exist (an earlier run)
InitRepos(trees, k) ==
  [name \in RepoSet |->
     LET cloned == \E i \in 1..k : Repos[i] = name
         local  == IF cloned THEN SyncedTrees[name] ELSE EmptyTree
     IN  [exists |-> cloned, work |-> local, index |-> local, head |-> local,
          remote |-> trees[name], committed |-> <<>>, pushed |-> <<>>]]

MainIdle ==
  /\ phase = "off"
  /\ idx = 1
  /\ repos = <<>>
  /\ readme = None
  /\ last = [call |-> "main", repo |-> "", ops |-> <<>>, raised |-> "none"]
  /\ done = <<>>

MainInit ==
  /\ phase = PHASES[1]
  /\ idx = 1
  /\ repos \in {InitRepos(t, k) : <<t, k>> \in RemoteTrees(MaxDev) \X (0..NumRepos)}
  /\ readme = None
  /\ last = [call |-> "main", repo |-> "", ops |-> <<>>, raised |-> "none"]
  /\ done = [name \in RepoSet |-> {}]

\* the progress record a call starts with, and the record it leaves
Begin(name) ==
  [exists |-> repos[name].exists, work |-> repos[name].work,
   index |-> repos[name].index, head |-> repos[name].head,
   remote |-> repos[name].remote, committed |-> repos[name].committed,
   pushed |-> repos[name].pushed, ops |-> <<>>, raised |-> "none"]

Left(g) ==
  [exists |-> g.exists, work |-> g.work, index |-> g.index, head |-> g.head,
   remote |-> g.remote, committed |-> g.committed, pushed |-> g.pushed]

\* a call of main on repos[idx] ended with g: an exception ends the run
Return(call, g) ==
  LET name == Repos[idx]
      pos  == NextPos(phase, idx)
  IN  /\ repos' = [repos EXCEPT ![name] = Left(g)]
      /\ last' = [call |-> call, repo |-> name, ops |-> g.ops, raised |-> g.raised]
      /\ IF g.raised # "none"
         THEN /\ phase' = "aborted"
              /\ UNCHANGED <<idx, done>>
         ELSE /\ phase' = pos.phase
              /\ idx' = pos.idx
              /\ done' = [done EXCEPT ![name] = @ \cup {call}]

\* repo.checkout()
Checkout ==
  /\ phase = "checkout"
  /\ \E rcs \in [1..2 -> ExitCodes] :
       Return("checkout", checkout(Begin(Repos[idx]), rcs))
  /\ UNCHANGED <<readme, rvars>>

\* repo.update_files()
UpdateFiles ==
  /\ phase = "update_files"
  /\ Return("update_files",
            update_files(Begin(Repos[idx]), Repos[idx], repos[BaseRepo].work))
  /\ UNCHANGED <<readme, rvars>>

\* readme = Readme(base / "README.md")
LoadReadme ==
  /\ phase = "load_readme"
  /\ readme' = load_existing(repos[BaseRepo].work["README.md"])
  /\ phase' = NextPos(phase, idx).phase
  /\ idx' = NextPos(phase, idx).idx
  /\ last' = [call |-> "load_readme", repo |-> BaseRepo, ops |-> <<>>,
              raised |-> "none"]
  /\ UNCHANGED <<repos, done, rvars>>

\* repo.update_readme(readme)
UpdateReadme ==
  /\ phase = "update_readme"
  /\ Return("update_readme", update_readme(Begin(Repos[idx]), readme))
  /\ UNCHANGED <<readme, rvars>>

\* repo.commit()
Commit ==
  /\ phase = "commit"
  /\ \E rcs \in [1..3 -> ExitCodes] :
       Return("commit", commit(Begin(Repos[idx]), COMMIT_MESSAGE, rcs))
  /\ UNCHANGED <<readme, rvars>>

\* what the formatting tool rewrites
Format(tree) ==
  [tree EXCEPT ![OtherFile] = IF @ = <<"unformatted">> THEN <<"formatted">> ELSE @]

\* the outcomes of uvx pre-commit run --all-files on a working copy: nothing
\* to do, findings it does not fix, or files rewritten
ToolOutcomes(tree) ==
  { [work |-> tree, rc |-> 0], [work |-> tree, rc |-> 1],
    [work |-> Format(tree), rc |-> 1] }

\* repo.pre_commit()
PreCommit ==
  /\ phase = "pre_commit"
  /\ \E tool \in ToolOutcomes(repos[Repos[idx]].work), rcs \in [1..3 -> ExitCodes] :
       Return("pre_commit", pre_commit(Begin(Repos[idx]), tool, rcs))
  /\ UNCHANGED <<readme, rvars>>

Next ==
  \/ Checkout
  \/ UpdateFiles
  \/ LoadReadme
  \/ UpdateReadme
  \/ Commit
  \/ PreCommit

Init == MainInit /\ ReadmeIdle

\* a run of main()
Spec == Init /\ [][Next]_vars

InitReadme == ReadmeInit /\ MainIdle

NextReadme == Construct \/ Update \/ Save

\* the Readme objects constructed on one README file
SpecReadme == InitReadme /\ [][NextReadme]_vars

(***************************************************************************)
(* Properties of the README helper, checked under SpecReadme.              *)
(***************************************************************************)

\* what the current Readme object loaded from its file
Loaded == runs[Len(runs)].parsed

AllowList == Range(README_SECTIONS)

\* C1: after update(base), every allow-listed heading that base and the
\* target both have carries base's body, and every target section that is not
\* top-level and is not (allow-listed and in base) has the body it was loaded
\* with.
C1_AllowListMerge ==
  rpc = "updated" =>
    \A i \in 1..Len(Loaded) :
      LET h == Loaded[i].key
      IN  /\ (h \in AllowList /\ HasKey(base, h)) =>
                (HasKey(sections, h) /\ Get(sections, h) = Get(base, h))
          /\ (~IsTopLevel(h) /\ ~(h \in AllowList /\ HasKey(base, h))) =>
                (HasKey(sections, h) /\ Get(sections, h) = Loaded[i].value)

\* an allow-listed section was replaced by a different body while the target
\* also holds a section outside the allow-list that base has too
C1_Witness ==
  /\ rpc = "updated"
  /\ \E i, j \in 1..Len(Loaded) :
       /\ Loaded[i].key \in AllowList
       /\ HasKey(base, Loaded[i].key)
       /\ Get(base, Loaded[i].key) # Loaded[i].value
       /\ Get(sections, Loaded[i].key) = Get(base, Loaded[i].key)
       /\ ~IsTopLevel(Loaded[j].key)
       /\ Loaded[j].key \notin AllowList
       /\ HasKey(base, Loaded[j].key)

\* True iff base[j] is the last top-level section of base
IsLastTopLevel(j) ==
  /\ IsTopLevel(base[j].key)
  /\ \A k \in (j + 1)..Len(base) : ~IsTopLevel(base[k].key)

\* C2: when base has a top-level section, after update(base) every top-level
\* section of the target carries base's top-level content (that of base's
\* last top-level section) under the heading line it was loaded with.
C2_TopLevelMerge ==
  rpc = "updated" =>
    \A j \in 1..Len(base) :
      IsLastTopLevel(j) =>
        \A i \in 1..Len(Loaded) :
          IsTopLevel(Loaded[i].key) =>
            /\ i <= Len(sections)
            /\ sections[i].key = Loaded[i].key
            /\ sections[i].value = base[j].value

\* a top-level section titled differently from base's took base's content
C2_Witness ==
  /\ rpc = "updated"
  /\ \E j \in 1..Len(base), i \in 1..Len(Loaded) :
       /\ IsLastTopLevel(j)
       /\ IsTopLevel(Loaded[i].key)
       /\ Loaded[i].key # base[j].key
       /\ Loaded[i].value # base[j].value
       /\ sections[i] = [key |-> Loaded[i].key, value |-> base[j].value]

\* C3: update never creates, removes or reorders sections: the heading keys
\* of the target, in order, are those it was loaded with, and save writes
\* one section per key in that order.
C3_KeysPreserved ==
  (rpc = "updated" \/ (rpc = "saved" /\ runs[Len(runs)].merged)) =>
    Keys(sections) = Keys(Loaded)

\* base has a top-level section and an allow-listed section the target lacks,
\* and the target has sections of its own
C3_Witness ==
  /\ rpc = "updated"
  /\ Len(Loaded) > 0
  /\ \A i \in 1..Len(Loaded) : ~IsTopLevel(Loaded[i].key)
  /\ \E j, k \in 1..Len(base) :
       /\ IsTopLevel(base[j].key)
       /\ base[k].key \in AllowList
       /\ ~HasKey(Loaded, base[k].key)

\* the sections with heading lines and bodies trimmed
Trimmed(d) ==
  [i \in 1..Len(d) |-> [key |-> Strip(d[i].key), value |-> Strip(d[i].value)]]

\* C4: parse, render, parse: a file loaded and saved without a merge loads
\* again as the same sequence of trimmed headings and trimmed bodies.
C4_ParseRenderParse ==
  \A k \in 1..(Len(runs) - 1) :
    (~runs[k].merged /\ runs[k].written # None) =>
      Trimmed(runs[k + 1].parsed) = Trimmed(runs[k].parsed)

\* C10: a second load_existing, update(base), save with the same base leaves
\* the file as the first left it.
C10_RerunIdempotent ==
  \A k \in 1..(Len(runs) - 1) :
    (runs[k].merged /\ runs[k + 1].merged /\ runs[k + 1].written # None) =>
      runs[k + 1].written = runs[k].written

(***************************************************************************)
(* Properties of a run of main(), checked under Spec.                      *)
(***************************************************************************)

Cmds(l) == [i \in 1..Len(l.ops) |-> l.ops[i].cmd]

\* the number of times cmd was run by the call l
Count(l, cmd) == Cardinality({i \in 1..Len(l.ops) : l.ops[i].cmd = cmd})

\* the message the commit of a call of the phase is made with
MessageOf(p) == IF p = "pre_commit" THEN COMMIT_MESSAGE_PRE_COMMIT ELSE COMMIT_MESSAGE

\* C5, a step of repo.commit() or repo.pre_commit() on repos[idx]
C5_Step ==
  phase \in {"commit", "pre_commit"} =>
    LET name   == Repos[idx]
        before == repos[name]
        after  == repos'[name]
        staged == \E i \in 1..Len(last'.ops) :
                    last'.ops[i].cmd = "git add" /\ last'.ops[i].rc = 0
        differs == after.index # before.head
    IN  /\ (staged /\ ~differs) =>
             /\ Count(last', "git commit") = 0
             /\ Count(last', "git push") = 0
             /\ after.committed = before.committed
             /\ after.pushed = before.pushed
             /\ after.head = before.head
             /\ after.remote = before.remote
        /\ (staged /\ differs /\ phase' # "aborted") =>
             /\ Count(last', "git commit") = 1
             /\ Count(last', "git push") = 1
             /\ after.committed = Append(before.committed, MessageOf(phase))
             /\ after.pushed = after.committed
             /\ after.head = after.index
             /\ after.remote = after.index
        /\ \A i \in 1..Len(last'.ops) :
             last'.ops[i].cmd = "git push" =>
               /\ i > 1
               /\ last'.ops[i - 1].cmd = "git commit"
               /\ last'.ops[i - 1].rc = 0

\* C5: a call of Repository.commit that staged a tree equal to the last
\* commit makes no commit and no push; one that staged a different tree and
\* returned made exactly one commit with the given message and then one push;
\* git push is never run but right after a git commit that succeeded in the
\* same call.
C5_CommitIfDirty == [][C5_Step]_vars

\* a repository whose shared files were committed and pushed by repo.commit()
\* went through the commit of repo.pre_commit() with nothing staged
C5_Witness ==
  /\ last.call = "pre_commit"
  /\ last.raised = "none"
  /\ Cmds(last) = <<"uvx pre-commit", "git add", "git diff">>
  /\ repos[last.repo].committed = <<COMMIT_MESSAGE>>
  /\ repos[last.repo].pushed = <<COMMIT_MESSAGE>>
  /\ repos[last.repo].remote = repos[last.repo].work

\* the five loops of main over the repositories
CALLS == <<"checkout", "update_files", "update_readme", "commit", "pre_commit">>

\* C6: each loop of main runs over the whole list, in list order, before the
\* next one starts; the base repository is checked out before any
\* update_files runs, and no repository is committed or pushed before every
\* repository went through update_files and update_readme.
C6_PhaseOrder ==
  /\ \A i, j \in 1..Len(Repos) :
       i < j => done[Repos[j]] \subseteq done[Repos[i]]
  /\ \A k \in 2..Len(CALLS), name \in RepoSet :
       CALLS[k] \in done[name] =>
         \A other \in RepoSet : CALLS[k - 1] \in done[other]
  /\ (phase = "update_files" \/ last.call = "update_files") =>
       "checkout" \in done[BaseRepo]
  /\ \A name \in RepoSet :
       (repos[name].committed # <<>> \/ repos[name].pushed # <<>>
          \/ (last.repo = name /\ last.call \in {"commit", "pre_commit"})) =>
         \A other \in RepoSet :
           {"checkout", "update_files", "update_readme"} \subseteq done[other]

\* the run ended and some repository but the first was committed and pushed
C6_Witness ==
  /\ phase = "done"
  /\ \E i \in 2..Len(Repos) : repos[Repos[i]].pushed # <<>>
  /\ \A name \in RepoSet : done[name] = Range(CALLS)

\* the files update_files reads from the base checkout for a repository
SourcesOf(name) ==
  IF name = BaseRepo THEN {}
  ELSE Range(COPY_FROM_BASE)
         \cup {f \in AdjustNames : <<name, f>> \notin ADJUST_FROM_BASE_EXCEPTIONS}

\* the files update_files removes from a repository
RemovedFrom(name) ==
  {f \in Range(REMOVE_FILES) : <<name, f>> \notin REMOVE_EXCEPTIONS}

\* C7, a step of repo.update_files() on repos[idx]: when it raises
C7_Step ==
  phase = "update_files" =>
    LET name    == Repos[idx]
        missing == \E f \in SourcesOf(name) : repos[BaseRepo].work[f] = NoFile
    IN  /\ missing => (phase' = "aborted" /\ last'.raised = "FileNotFoundError")
        /\ ~missing => (phase' # "aborted" /\ last'.raised = "none")
        /\ \A f \in RemovedFrom(name) :
             (~missing /\ repos[name].work[f] = NoFile) =>
                repos'[name].work[f] = NoFile
        /\ (SourcesOf(name) = {}
              /\ \A f \in RemovedFrom(name) : repos[name].work[f] = NoFile) =>
             repos'[name].work = repos[name].work

\* C7: update_files aborts the run with a missing-file error when a source
\* of a copy or of a substitution that applies to the repository is missing
\* from the base checkout, and only then: a file to remove that is absent
\* raises nothing and stays absent, and a checkout that holds none of the
\* files to remove and takes nothing from base is left as it was.
C7_FileRuleErrors == [][C7_Step]_vars

\* update_files went over the base checkout, where no file to remove was
\* present, without an error, and a later repository found a source missing
C7_Witness ==
  /\ phase = "aborted"
  /\ last.call = "update_files"
  /\ last.raised = "FileNotFoundError"
  /\ "update_files" \in done[BaseRepo]
  /\ \A f \in Range(REMOVE_FILES) : repos[BaseRepo].remote[f] = NoFile
  /\ \E f \in SourcesOf(last.repo) : repos[BaseRepo].work[f] = NoFile

\* a command run with check=True exited with a code other than 0
Failed(l) == \E i \in 1..Len(l.ops) : l.ops[i].check /\ l.ops[i].rc # 0

\* no commit was made in the repository and none was pushed from it
Untouched(name) == repos[name].committed = <<>> /\ repos[name].pushed = <<>>

\* C8 as stated: at the abort, the repositories later in the list are
\* untouched.
C8_LaterUntouched ==
  (phase = "aborted" /\ Failed(last)) =>
    \A j \in (idx + 1)..Len(Repos) : Untouched(Repos[j])

\* C8, a step of main around a failing command
C8_Step ==
  /\ Failed(last) => UNCHANGED vars
  /\ (Failed(last') /\ ~Failed(last)) =>
       /\ phase' = "aborted"
       /\ idx' = idx
       /\ \A name \in RepoSet \ {Repos[idx]} : repos'[name] = repos[name]
       /\ \A name \in RepoSet :
            /\ Len(repos[name].pushed) <= Len(repos'[name].pushed)
            /\ SubSeq(repos'[name].pushed, 1, Len(repos[name].pushed))
                 = repos[name].pushed
       /\ \A j \in 1..(idx - 1) :
            /\ repos'[Repos[j]].pushed = repos'[Repos[j]].committed
            /\ phase \in {"commit", "pre_commit"} =>
                 repos'[Repos[j]].remote = repos'[Repos[j]].head
       /\ \A j \in (idx + 1)..Len(Repos) :
            IF phase \in {"commit", "pre_commit"}
            THEN MessageOf(phase) \notin Range(repos'[Repos[j]].committed)
            ELSE repos'[Repos[j]].committed = <<>>

\* C8, amended: once a checked command failed nothing more is run; the
\* failing call ends the run, leaves every other repository as it was (the
\* commits pushed earlier stay), and no repository later in the list has a
\* commit of the loop that was aborted (it may have one of an earlier loop).
C8_AbortSemantics == [][C8_Step]_vars

\* the run was aborted in the pre-commit loop by a failing command while a
\* repository later in the list had been committed and pushed by the commit
\* loop
C8_Witness ==
  /\ phase = "aborted"
  /\ last.call = "pre_commit"
  /\ Failed(last)
  /\ \E j \in (idx + 1)..Len(Repos) :
       /\ repos[Repos[j]].committed = <<COMMIT_MESSAGE>>
       /\ repos[Repos[j]].pushed = <<COMMIT_MESSAGE>>

\* C9, a step of repo.update_files() on repos[idx]: what it changes
C9_Step ==
  phase = "update_files" =>
    LET name == Repos[idx]
    IN  /\ \A f \in Paths :
             LET old == repos[name].work[f]
                 new == repos'[name].work[f]
             IN  old # new =>
                   IF new = NoFile
                   THEN f \in Range(REMOVE_FILES)
                          /\ <<name, f>> \notin REMOVE_EXCEPTIONS
                   ELSE /\ name # BaseRepo
                        /\ f \in Range(COPY_FROM_BASE) \cup AdjustNames
                        /\ <<name, f>> \notin ADJUST_FROM_BASE_EXCEPTIONS
        /\ \A other \in RepoSet \ {name} : repos'[other] = repos[other]
        /\ repos'[name] = [repos[name] EXCEPT !.work = repos'[name].work]

\* C9: update_files writes a file of the repository only from a copy or
\* substitution rule, only outside the base repository and only when the
\* pair is no substitution exception; it removes a file only when it is in
\* REMOVE_FILES and the pair is no removal exception; every other file, and
\* every other repository, is unchanged.
C9_UpdateFilesFrame == [][C9_Step]_vars

\* update_files returned for .github, whose release workflow (a substitution
\* exception) still holds the text it had and whose CONTRIBUTING.md (a
\* removal exception) is still there
C9_Witness ==
  /\ last.call = "update_files"
  /\ last.repo = ".github"
  /\ last.raised = "none"
  /\ repos[".github"].work[".github/workflows/release.yml"]
       = Workflow(RuleOf(".github/workflows/release.yml"))
  /\ repos[".github"].work["CONTRIBUTING.md"] # NoFile
  /\ repos[".github"].work[".pre-commit-config.yaml"]
       = repos[BaseRepo].work[".pre-commit-config.yaml"]

=============================================================================
